---- MODULE Spec2Model ----
(***************************************************************************)
(* Model of the holoagent voice widget (src/app/SimliOpenAI.tsx), of its   *)
(* push-to-talk variant (src/app/SimliOpenAIPushToTalk.tsx) and of the     *)
(* duration ledger of the page that hosts it                               *)
(* (src/app/DynamicInteractionPage.tsx).                                   *)
(*                                                                         *)
(* The host runs every handler to completion, so each action below is one  *)
(* whole handler, or the part of an async function between two awaits.     *)
(* The collaborators (SimliClient renderer, RealtimeClient remote engine,  *)
(* capture device) are modelled by the calls the widget makes on them and  *)
(* by the events and promise outcomes they deliver back.                   *)
(***************************************************************************)
EXTENDS Integers, Sequences, FiniteSets, TLC

\* Bounds of the model.
MaxStarts == 2      \* handleStart invocations explored
MaxChunks == 2      \* assistant audio deltas explored
MaxCancels == 2     \* conversation.interrupted events explored

VARIABLES
    isLoading,             \* useState, SimliOpenAI.tsx:36
    isAvatarVisible,       \* useState, :37
    error,                 \* useState, :38 ("" or the kind of the message)
    isRecording,           \* useState, :39
    openAIClientRef,       \* useRef, :49 (0 is null, else an index of clients)
    audioContextRef,       \* useRef, :50 (TRUE: holds an open AudioContext)
    streamRef,             \* useRef, :51 (TRUE: holds a live MediaStream)
    processorRef,          \* useRef, :52 (TRUE: holds a connected processor)
    audioChunkQueueRef,    \* useRef, :53
    isProcessingChunkRef,  \* useRef, :54
    clients,               \* every RealtimeClient constructed so far, by state
    simliState,            \* the module-level SimliClient, :22
    simliListeners,        \* listener pairs registered on it by eventListenerSimli
    simliBuffer,           \* chunks the renderer holds and has not played yet
    simliDropped,          \* chunks the renderer discarded on ClearBuffer
    sent,                  \* the sendAudioData calls, in call order
    cancelled,             \* number of cancelResponse requests issued
    startsPending,         \* handleStart invocations awaiting simliClient.start()
    initPending,           \* initializeOpenAIClient invocations awaiting updateSession
    micPending,            \* startRecording invocations awaiting getUserMedia
    onStartCalls,          \* number of onStart() calls made by the widget
    startTimeRef,          \* DynamicInteractionPage.tsx:42 (0 is null, else the
                           \* instant recorded by the k-th onStart call)
    usageReports,          \* number of updateDuration requests emitted
    teardown,              \* the collaborator calls made by the last handleStop
    arrived,               \* assistant audio deltas received, in arrival order
    stopped,               \* handleStop has run and handleStart has not since
    last,                  \* the handler that ran last
    isButtonDisabled,      \* useState, SimliOpenAIPushToTalk.tsx:45
    isSpacePressedRef,     \* useRef, SimliOpenAIPushToTalk.tsx:58
    graceTimers,           \* setTimeout callbacks of handlePushToTalkEnd not yet run
    holdActive,            \* a hold was accepted and no release event has followed
    holds,                 \* holds accepted so far
    finalized,             \* createResponse requests that reached a connected engine
                           \* from stopRecording or handleSpeechStopped
    now,                   \* Date.now(), in milliseconds
    addedSeconds,          \* the elapsed seconds of each usage report, in order
    showLimitModal,        \* useState, DynamicInteractionPage.tsx:40
    reportsPending,        \* updateDuration requests awaiting their answer
    audioData,             \* the Int16Array given to downsampleAudio
    inputSampleRate,       \* its second argument
    outputSampleRate,      \* its third argument
    resampled,             \* what the call did: its status and its value
    calls                  \* the calls of the resampler made so far

vars == << isLoading, isAvatarVisible, error, isRecording, openAIClientRef,
           audioContextRef, streamRef, processorRef, audioChunkQueueRef,
           isProcessingChunkRef, clients, simliState, simliListeners,
           simliBuffer, simliDropped, sent, cancelled, startsPending,
           initPending, micPending, onStartCalls, startTimeRef, usageReports,
           teardown, arrived, stopped, last, isButtonDisabled,
           isSpacePressedRef, graceTimers, holdActive, holds, finalized,
           now, addedSeconds, showLimitModal, reportsPending,
           audioData, inputSampleRate, outputSampleRate, resampled,
           calls >>

\* The state only the push-to-talk widget has, the state only the duration
\* ledger has, and one call of the resampler.
pushToTalkVars == << isButtonDisabled, isSpacePressedRef, graceTimers,
                    holdActive, holds, finalized >>
ledgerVars == << now, addedSeconds, showLimitModal, reportsPending >>
resampleVars ==
    << audioData, inputSampleRate, outputSampleRate, resampled, calls >>

Clients == DOMAIN clients
OpenClients == { c \in Clients : clients[c] = "open" }
ConnectingClients == { c \in Clients : clients[c] = "connecting" }

----------------------------------------------------------------------------
(* Chunk relay queue.  A relay state is [queue, flag, out]: the queue      *)
(* ref, the guard ref and the chunks handed to simliClient.sendAudioData.  *)

\* shift() of an empty array yields undefined, which is falsy.
NoChunk == 0

\* A drain whose truthiness test is inverted: the chunk is shifted, never
\* sent, and the guard stays set.
RECURSIVE processNextAudioChunk_dropping(_)
processNextAudioChunk_dropping(r) ==
    IF Len(r.queue) > 0 /\ ~r.flag
    THEN LET audioChunk == Head(r.queue)
         IN  IF audioChunk = NoChunk
             THEN processNextAudioChunk_dropping(
                      [queue |-> Tail(r.queue), flag |-> FALSE,
                       out |-> Append(r.out, audioChunk)])
             ELSE [queue |-> Tail(r.queue), flag |-> TRUE, out |-> r.out]
    ELSE r

\* A drain that does not release the guard after sending.
RECURSIVE processNextAudioChunk_holding(_)
processNextAudioChunk_holding(r) ==
    IF Len(r.queue) > 0 /\ ~r.flag
    THEN LET audioChunk == Head(r.queue)
         IN  IF audioChunk # NoChunk
             THEN processNextAudioChunk_holding(
                      [queue |-> Tail(r.queue), flag |-> TRUE,
                       out |-> Append(r.out, audioChunk)])
             ELSE [queue |-> Tail(r.queue), flag |-> TRUE, out |-> r.out]
    ELSE r

RECURSIVE processNextAudioChunk(_)
processNextAudioChunk(r) ==
    IF Len(r.queue) > 0 /\ ~r.flag
    THEN LET audioChunk == Head(r.queue)
         IN  IF audioChunk # NoChunk
             THEN processNextAudioChunk(
                      [queue |-> Tail(r.queue), flag |-> FALSE,
                       out |-> Append(r.out, audioChunk)])
             ELSE [queue |-> Tail(r.queue), flag |-> TRUE, out |-> r.out]
    ELSE r

\* The three shapes of a conversation.updated event.
EventKinds == { "assistantAudio", "assistantText", "user" }

\* A handleConversationUpdate whose guard test is inverted: it starts the
\* drain only when one is already marked in progress.
handleConversationUpdate_inverted(r, kind, d) ==
    IF kind = "assistantAudio"
    THEN LET pushed == [r EXCEPT !.queue = Append(r.queue, d)]
         IN  IF pushed.flag THEN processNextAudioChunk(pushed) ELSE pushed
    ELSE r

\* A handleConversationUpdate that does not test the role of the item.
handleConversationUpdate_anyRole(r, kind, d) ==
    IF kind # "assistantText"
    THEN LET pushed == [r EXCEPT !.queue = Append(r.queue, d)]
         IN  IF ~pushed.flag THEN processNextAudioChunk(pushed) ELSE pushed
    ELSE r

\* handleConversationUpdate on relay state r, for an event of the given kind
\* whose audio delta (if any) is chunk d after downsampling.
handleConversationUpdate(r, kind, d) ==
    IF kind = "assistantAudio"
    THEN LET pushed == [r EXCEPT !.queue = Append(r.queue, d)]
         IN  IF ~pushed.flag THEN processNextAudioChunk(pushed) ELSE pushed
    ELSE r

Relay == [queue |-> audioChunkQueueRef, flag |-> isProcessingChunkRef, out |-> <<>>]

----------------------------------------------------------------------------
(* Teardown.  A widget state is the record of what handleStop reads and    *)
(* writes, with calls the sequence of collaborator calls it has made.      *)

Widget ==
    [ isLoading |-> isLoading, isAvatarVisible |-> isAvatarVisible,
      error |-> error, isRecording |-> isRecording,
      openAIClientRef |-> openAIClientRef, audioContextRef |-> audioContextRef,
      streamRef |-> streamRef, processorRef |-> processorRef,
      clients |-> clients, simliState |-> simliState,
      simliBuffer |-> simliBuffer, startTimeRef |-> startTimeRef,
      calls |-> <<>> ]

Call(w, name) == [w EXCEPT !.calls = Append(w.calls, name)]

\* simliClient.close()
simliClose(w) ==
    Call([w EXCEPT !.simliState = "closed", !.simliBuffer = 0], "simli.close")

\* openAIClientRef.current?.disconnect(): closes an open connection; on a
\* client that is not connected it does nothing.
openAIDisconnect(w) ==
    IF w.openAIClientRef = 0 THEN w
    ELSE Call([w EXCEPT !.clients[w.openAIClientRef] =
                   IF @ = "open" THEN "closed" ELSE @], "openai.disconnect")

\* if (audioContextRef.current) { close(); audioContextRef.current = null }
audioContextClose(w) ==
    IF w.audioContextRef
    THEN Call([w EXCEPT !.audioContextRef = FALSE], "audioContext.close")
    ELSE w

\* A stopRecording that stops the tracks but keeps the stream reference.
stopRecording_keeping(w) ==
    LET w1 == IF w.processorRef
              THEN Call([w EXCEPT !.processorRef = FALSE], "processor.disconnect")
              ELSE w
        w2 == IF w1.streamRef THEN Call(w1, "track.stop") ELSE w1
    IN  [w2 EXCEPT !.isRecording = FALSE]

stopRecording(w) ==
    LET w1 == IF w.processorRef
              THEN Call([w EXCEPT !.processorRef = FALSE], "processor.disconnect")
              ELSE w
        w2 == IF w1.streamRef
              THEN Call([w1 EXCEPT !.streamRef = FALSE], "track.stop")
              ELSE w1
    IN  [w2 EXCEPT !.isRecording = FALSE]

\* flushDuration, the page's onClose: the start marker is cleared when set.
flushDuration(w) ==
    IF w.startTimeRef = 0 THEN w
    ELSE Call([w EXCEPT !.startTimeRef = 0], "updateDuration")

\* A handleStop that closes the audio context before the remote connection.
handleStop_contextFirst(w) ==
    LET w1 == stopRecording([w EXCEPT !.isLoading = FALSE, !.error = ""])
        w2 == [w1 EXCEPT !.isAvatarVisible = FALSE]
    IN  flushDuration(openAIDisconnect(simliClose(audioContextClose(w2))))

handleStop(w) ==
    LET w1 == stopRecording([w EXCEPT !.isLoading = FALSE, !.error = ""])
        w2 == [w1 EXCEPT !.isAvatarVisible = FALSE]
    IN  flushDuration(audioContextClose(openAIDisconnect(simliClose(w2))))

\* The program state of a widget record, without the calls made to reach it.
StateOf(w) == [w EXCEPT !.calls = <<>>]

----------------------------------------------------------------------------
Constructed ==
    /\ isLoading = FALSE
    /\ isAvatarVisible = FALSE
    /\ error = ""
    /\ isRecording = FALSE
    /\ openAIClientRef = 0
    /\ audioContextRef = FALSE
    /\ streamRef = FALSE
    /\ processorRef = FALSE
    /\ audioChunkQueueRef = <<>>
    /\ isProcessingChunkRef = FALSE
    /\ clients = <<>>
    /\ simliState = "closed"
    /\ simliListeners = 0
    /\ simliBuffer = 0
    /\ simliDropped = 0
    /\ sent = <<>>
    /\ cancelled = 0
    /\ startsPending = 0
    /\ initPending = 0
    /\ micPending = 0
    /\ onStartCalls = 0
    /\ startTimeRef = 0
    /\ usageReports = 0
    /\ teardown = <<>>
    /\ arrived = <<>>
    /\ stopped = FALSE
    /\ last = "init"
    /\ isButtonDisabled = FALSE
    /\ isSpacePressedRef = FALSE
    /\ graceTimers = 0
    /\ holdActive = FALSE
    /\ holds = 0
    /\ finalized = 0
    /\ now = 1
    /\ addedSeconds = <<>>
    /\ showLimitModal = FALSE
    /\ reportsPending = 0

\* No call of the resampler has been made.
NotResampled == [ status |-> "none", value |-> <<>> ]

Init ==
    /\ Constructed
    /\ audioData = <<>>
    /\ inputSampleRate = 24000
    /\ outputSampleRate = 16000
    /\ resampled = NotResampled
    /\ calls = {}

\* The start button is rendered while the avatar is hidden and is disabled
\* while isLoading (SimliOpenAI.tsx:638-662).
StartButtonEnabled == ~isAvatarVisible /\ ~isLoading

\* A handleStart that acquires the capture device at once.
handleStart_capturing ==
    /\ StartButtonEnabled
    /\ onStartCalls < MaxStarts
    /\ isLoading' = TRUE
    /\ error' = ""
    /\ onStartCalls' = onStartCalls + 1
    /\ startTimeRef' = onStartCalls + 1
    /\ startsPending' = startsPending + 1
    /\ micPending' = micPending + 1
    /\ stopped' = FALSE
    /\ last' = "handleStart"
    /\ UNCHANGED << simliDropped, isAvatarVisible, isRecording, openAIClientRef,
                    audioContextRef, streamRef, processorRef,
                    audioChunkQueueRef, isProcessingChunkRef, clients,
                    simliState, simliListeners, simliBuffer, sent, cancelled,
                    initPending, usageReports, teardown, arrived >>
    /\ UNCHANGED << pushToTalkVars, ledgerVars, resampleVars >>

\* handleStart up to its await of simliClient.start().
handleStart ==
    /\ StartButtonEnabled
    /\ onStartCalls < MaxStarts
    /\ isLoading' = TRUE
    /\ error' = ""
    /\ onStartCalls' = onStartCalls + 1
    /\ startTimeRef' = onStartCalls + 1
    /\ startsPending' = startsPending + 1
    /\ stopped' = FALSE
    /\ last' = "handleStart"
    /\ UNCHANGED << simliDropped, isAvatarVisible, isRecording, openAIClientRef,
                    audioContextRef, streamRef, processorRef,
                    audioChunkQueueRef, isProcessingChunkRef, clients,
                    simliState, simliListeners, simliBuffer, sent, cancelled,
                    initPending, micPending, usageReports, teardown, arrived >>
    /\ UNCHANGED << pushToTalkVars, ledgerVars, resampleVars >>

\* simliClient.start() resolves: eventListenerSimli() registers one more
\* listener pair on the shared client, then the finally block runs.
handleStartResolved ==
    /\ startsPending > 0
    /\ startsPending' = startsPending - 1
    /\ simliState' = "started"
    /\ simliListeners' = simliListeners + 1
    /\ isLoading' = FALSE
    /\ last' = "handleStartResolved"
    /\ UNCHANGED << simliDropped, isAvatarVisible, error, isRecording, openAIClientRef,
                    audioContextRef, streamRef, processorRef,
                    audioChunkQueueRef, isProcessingChunkRef, clients,
                    simliBuffer, sent, cancelled, initPending, micPending,
                    onStartCalls, startTimeRef, usageReports, teardown,
                    arrived, stopped >>
    /\ UNCHANGED << pushToTalkVars, ledgerVars, resampleVars >>

\* simliClient.start() rejects: the catch and the finally block run.
handleStartRejected ==
    /\ startsPending > 0
    /\ startsPending' = startsPending - 1
    /\ error' = "start"
    /\ isLoading' = FALSE
    /\ last' = "handleStartRejected"
    /\ UNCHANGED << simliDropped, isAvatarVisible, isRecording, openAIClientRef,
                    audioContextRef, streamRef, processorRef,
                    audioChunkQueueRef, isProcessingChunkRef, clients,
                    simliState, simliListeners, simliBuffer, sent, cancelled,
                    initPending, micPending, onStartCalls, startTimeRef,
                    usageReports, teardown, arrived, stopped >>
    /\ UNCHANGED << pushToTalkVars, ledgerVars, resampleVars >>

\* The renderer reports "connected": every registered listener runs
\* initializeOpenAIClient up to its first await, each constructing a client
\* and storing it in openAIClientRef.
simliConnected ==
    /\ simliState = "started"
    /\ simliState' = "connected"
    /\ clients' = clients \o [i \in 1..simliListeners |-> "fresh"]
    /\ openAIClientRef' = Len(clients) + simliListeners
    /\ initPending' = initPending + simliListeners
    /\ last' = "simliConnected"
    /\ UNCHANGED << simliDropped, isLoading, isAvatarVisible, error, isRecording,
                    audioContextRef, streamRef, processorRef,
                    audioChunkQueueRef, isProcessingChunkRef, simliListeners,
                    simliBuffer, sent, cancelled, startsPending, micPending,
                    onStartCalls, startTimeRef, usageReports, teardown,
                    arrived, stopped >>
    /\ UNCHANGED << pushToTalkVars, ledgerVars, resampleVars >>

\* initializeOpenAIClient after updateSession: addTool, on(...), connect().
\* RealtimeClient.addTool refuses a tool name the client already holds, so
\* an invocation that finds the current client already set up ends in catch.
initializeOpenAIClientSetup ==
    /\ initPending > 0
    /\ initPending' = initPending - 1
    /\ IF clients[openAIClientRef] = "fresh"
       THEN /\ clients' = [clients EXCEPT ![openAIClientRef] = "connecting"]
            /\ error' = error
       ELSE /\ clients' = clients
            /\ error' = "openai"
    /\ last' = "initializeOpenAIClientSetup"
    /\ UNCHANGED << simliDropped, isLoading, isAvatarVisible, isRecording, openAIClientRef,
                    audioContextRef, streamRef, processorRef,
                    audioChunkQueueRef, isProcessingChunkRef, simliState,
                    simliListeners, simliBuffer, sent, cancelled,
                    startsPending, micPending, onStartCalls, startTimeRef,
                    usageReports, teardown, arrived, stopped >>
    /\ UNCHANGED << pushToTalkVars, ledgerVars, resampleVars >>

\* connect() of client c resolves: createResponse(), the part of
\* startRecording before its await, setIsAvatarVisible(true).
initializeOpenAIClientConnected(c) ==
    /\ clients[c] = "connecting"
    /\ clients' = [clients EXCEPT ![c] = "open"]
    /\ audioContextRef' = TRUE
    /\ micPending' = micPending + 1
    /\ isAvatarVisible' = TRUE
    /\ last' = "initializeOpenAIClientConnected"
    /\ UNCHANGED << simliDropped, isLoading, error, isRecording, openAIClientRef, streamRef,
                    processorRef, audioChunkQueueRef, isProcessingChunkRef,
                    simliState, simliListeners, simliBuffer, sent, cancelled,
                    startsPending, initPending, onStartCalls, startTimeRef,
                    usageReports, teardown, arrived, stopped >>
    /\ UNCHANGED << pushToTalkVars, ledgerVars, resampleVars >>

\* connect() of client c rejects: the catch block runs.
initializeOpenAIClientFailed(c) ==
    /\ clients[c] = "connecting"
    /\ clients' = [clients EXCEPT ![c] = "closed"]
    /\ error' = "openai"
    /\ last' = "initializeOpenAIClientFailed"
    /\ UNCHANGED << simliDropped, isLoading, isAvatarVisible, isRecording, openAIClientRef,
                    audioContextRef, streamRef, processorRef,
                    audioChunkQueueRef, isProcessingChunkRef, simliState,
                    simliListeners, simliBuffer, sent, cancelled,
                    startsPending, initPending, micPending, onStartCalls,
                    startTimeRef, usageReports, teardown, arrived, stopped >>
    /\ UNCHANGED << pushToTalkVars, ledgerVars, resampleVars >>

\* getUserMedia resolves: the stream is stored, then the processor is
\* created on audioContextRef.current; if that is null by now the access
\* throws and the catch block runs.
startRecordingGranted ==
    /\ micPending > 0
    /\ micPending' = micPending - 1
    /\ streamRef' = TRUE
    /\ IF audioContextRef
       THEN /\ processorRef' = TRUE
            /\ isRecording' = TRUE
            /\ error' = error
       ELSE /\ processorRef' = processorRef
            /\ isRecording' = isRecording
            /\ error' = "microphone"
    /\ last' = "startRecordingGranted"
    /\ UNCHANGED << simliDropped, isLoading, isAvatarVisible, openAIClientRef,
                    audioContextRef, audioChunkQueueRef, isProcessingChunkRef,
                    clients, simliState, simliListeners, simliBuffer, sent,
                    cancelled, startsPending, initPending, onStartCalls,
                    startTimeRef, usageReports, teardown, arrived, stopped >>
    /\ UNCHANGED << pushToTalkVars, ledgerVars, resampleVars >>

\* getUserMedia rejects: the catch block runs.
startRecordingDenied ==
    /\ micPending > 0
    /\ micPending' = micPending - 1
    /\ error' = "microphone"
    /\ last' = "startRecordingDenied"
    /\ UNCHANGED << simliDropped, isLoading, isAvatarVisible, isRecording, openAIClientRef,
                    audioContextRef, streamRef, processorRef,
                    audioChunkQueueRef, isProcessingChunkRef, clients,
                    simliState, simliListeners, simliBuffer, sent, cancelled,
                    startsPending, initPending, onStartCalls, startTimeRef,
                    usageReports, teardown, arrived, stopped >>
    /\ UNCHANGED << pushToTalkVars, ledgerVars, resampleVars >>

\* The stop button is rendered while the avatar is visible (:665-676).
stopClicked ==
    /\ isAvatarVisible
    /\ LET w == handleStop(Widget)
       IN  /\ isLoading' = w.isLoading
           /\ isAvatarVisible' = w.isAvatarVisible
           /\ error' = w.error
           /\ isRecording' = w.isRecording
           /\ audioContextRef' = w.audioContextRef
           /\ streamRef' = w.streamRef
           /\ processorRef' = w.processorRef
           /\ clients' = w.clients
           /\ simliState' = w.simliState
           /\ simliBuffer' = w.simliBuffer
           /\ startTimeRef' = w.startTimeRef
           /\ usageReports' = usageReports +
                  Cardinality({ i \in DOMAIN w.calls : w.calls[i] = "updateDuration" })
           /\ teardown' = w.calls
    /\ stopped' = TRUE
    /\ last' = "handleStop"
    /\ UNCHANGED << simliDropped, openAIClientRef, audioChunkQueueRef, isProcessingChunkRef,
                    simliListeners, sent, cancelled, startsPending,
                    initPending, micPending, onStartCalls, arrived >>
    /\ UNCHANGED << pushToTalkVars, ledgerVars, resampleVars >>

\* The renderer reports "disconnected": every registered listener
\* disconnects the current client and closes the audio context.
simliDisconnected ==
    /\ simliState = "connected"
    /\ LET w == audioContextClose(openAIDisconnect(Widget))
       IN  /\ clients' = w.clients
           /\ audioContextRef' = w.audioContextRef
    /\ simliState' = "closed"
    /\ simliBuffer' = 0
    /\ last' = "simliDisconnected"
    /\ UNCHANGED << simliDropped, isLoading, isAvatarVisible, error, isRecording,
                    openAIClientRef, streamRef, processorRef,
                    audioChunkQueueRef, isProcessingChunkRef, simliListeners,
                    sent, cancelled, startsPending, initPending, micPending,
                    onStartCalls, startTimeRef, usageReports, teardown,
                    arrived, stopped >>
    /\ UNCHANGED << pushToTalkVars, ledgerVars, resampleVars >>

\* A connected client delivers conversation.updated.
conversationUpdated(kind) ==
    /\ OpenClients # {}
    /\ kind = "assistantAudio" => Len(arrived) < MaxChunks
    /\ LET d == Len(arrived) + 1
           r == handleConversationUpdate(Relay, kind, d)
       IN  /\ audioChunkQueueRef' = r.queue
           /\ isProcessingChunkRef' = r.flag
           /\ sent' = sent \o r.out
           /\ simliBuffer' = IF simliState = "connected"
                             THEN simliBuffer + Len(r.out) ELSE simliBuffer
           /\ arrived' = IF kind = "assistantAudio" THEN Append(arrived, d)
                         ELSE arrived
    /\ last' = kind
    /\ UNCHANGED << simliDropped, isLoading, isAvatarVisible, error, isRecording,
                    openAIClientRef, audioContextRef, streamRef, processorRef,
                    clients, simliState, simliListeners, cancelled,
                    startsPending, initPending, micPending, onStartCalls,
                    startTimeRef, usageReports, teardown, stopped >>
    /\ UNCHANGED << pushToTalkVars, ledgerVars, resampleVars >>

\* The renderer state after simliClient.ClearBuffer(): what it held is
\* discarded.
simliClearBuffer(s) ==
    [s EXCEPT !.buffer = 0, !.dropped = s.dropped + s.buffer]

\* An interruptConversation that clears the renderer and forgets the cancel.
interruptConversation_noCancel(s) == simliClearBuffer(s)

\* interruptConversation on s = [buffer, dropped, cancels]:
\* simliClient.ClearBuffer(); openAIClientRef.current?.cancelResponse("").
interruptConversation(s) ==
    [simliClearBuffer(s) EXCEPT !.cancels = s.cancels + 1]

\* A connected client delivers conversation.interrupted.
conversationInterrupted ==
    /\ OpenClients # {}
    /\ cancelled < MaxCancels
    /\ LET s == interruptConversation([buffer |-> simliBuffer,
                                       dropped |-> simliDropped,
                                       cancels |-> cancelled])
       IN  /\ simliBuffer' = s.buffer
           /\ simliDropped' = s.dropped
           /\ cancelled' = s.cancels
    /\ last' = "interrupted"
    /\ UNCHANGED << isLoading, isAvatarVisible, error, isRecording,
                    openAIClientRef, audioContextRef, streamRef, processorRef,
                    audioChunkQueueRef, isProcessingChunkRef, clients,
                    simliState, simliListeners, sent, startsPending,
                    initPending, micPending, onStartCalls, startTimeRef,
                    usageReports, teardown, arrived, stopped >>
    /\ UNCHANGED << pushToTalkVars, ledgerVars, resampleVars >>

\* A handleSpeechStopped that interrupts the conversation.
handleSpeechStopped_cancelling(s) == interruptConversation(s)

\* handleSpeechStopped on s = [buffer, dropped, cancels]: it only logs.
handleSpeechStopped(s) == s

\* A connected client delivers input_audio_buffer.speech_stopped.
speechStopped ==
    /\ OpenClients # {}
    /\ LET s == handleSpeechStopped([buffer |-> simliBuffer,
                                     dropped |-> simliDropped,
                                     cancels |-> cancelled])
       IN  /\ simliBuffer' = s.buffer
           /\ simliDropped' = s.dropped
           /\ cancelled' = s.cancels
    /\ last' = "speechStopped"
    /\ UNCHANGED << isLoading, isAvatarVisible, error, isRecording,
                    openAIClientRef, audioContextRef, streamRef, processorRef,
                    audioChunkQueueRef, isProcessingChunkRef, clients,
                    simliState, simliListeners, sent, startsPending,
                    initPending, micPending, onStartCalls, startTimeRef,
                    usageReports, teardown, arrived, stopped >>
    /\ UNCHANGED << pushToTalkVars, ledgerVars, resampleVars >>

\* The renderer plays one of the chunks it holds.
simliPlays ==
    /\ simliBuffer > 0
    /\ simliBuffer' = simliBuffer - 1
    /\ last' = "simliPlays"
    /\ UNCHANGED << simliDropped, isLoading, isAvatarVisible, error, isRecording,
                    openAIClientRef, audioContextRef, streamRef, processorRef,
                    audioChunkQueueRef, isProcessingChunkRef, clients,
                    simliState, simliListeners, sent, cancelled,
                    startsPending, initPending, micPending, onStartCalls,
                    startTimeRef, usageReports, teardown, arrived, stopped >>
    /\ UNCHANGED << pushToTalkVars, ledgerVars, resampleVars >>

\* The session lifecycle: start, connect, capture, stop, disconnect.
Lifecycle ==
    \/ handleStartResolved
    \/ handleStartRejected
    \/ simliConnected
    \/ initializeOpenAIClientSetup
    \/ \E c \in Clients : initializeOpenAIClientConnected(c)
    \/ \E c \in Clients : initializeOpenAIClientFailed(c)
    \/ startRecordingGranted
    \/ startRecordingDenied
    \/ stopClicked
    \/ simliDisconnected

\* The events of a connected remote engine, and the renderer playing.
Conversation ==
    \/ \E kind \in EventKinds : conversationUpdated(kind)
    \/ conversationInterrupted
    \/ speechStopped
    \/ simliPlays

\* The lifecycle over MaxStarts start attempts, no conversation running.
Next ==
    \/ handleStart
    \/ Lifecycle

Spec == Init /\ [][Next]_vars

\* The lifecycle over MaxSessions start attempts, with the conversation.
MaxSessions == 1

RelayNext ==
    \/ (onStartCalls < MaxSessions /\ handleStart)
    \/ Lifecycle
    \/ Conversation

RelaySpec == Init /\ [][RelayNext]_vars

----------------------------------------------------------------------------
(* The push-to-talk widget (src/app/SimliOpenAIPushToTalk.tsx).  Its       *)
(* handleStart, eventListenerSimli, startRecording and the catch of        *)
(* initializeOpenAIClient are the code of SimliOpenAI.tsx line for line,   *)
(* so the actions above stand for them.  What differs is modelled here, on *)
(* a record of the state the hold handlers read and write.                 *)

MaxPttStarts == 1   \* handleStart invocations explored with push-to-talk
MaxHolds == 2       \* holds accepted
MaxFinalize == 3    \* release timers and finalize requests

PushToTalk ==
    [ isAvatarVisible |-> isAvatarVisible, isRecording |-> isRecording,
      streamRef |-> streamRef, processorRef |-> processorRef,
      audioContextRef |-> audioContextRef, micPending |-> micPending,
      isButtonDisabled |-> isButtonDisabled,
      isSpacePressedRef |-> isSpacePressedRef, graceTimers |-> graceTimers,
      holdActive |-> holdActive, holds |-> holds, finalized |-> finalized,
      simliBuffer |-> simliBuffer, simliDropped |-> simliDropped,
      cancelled |-> cancelled,
      connected |-> openAIClientRef \in OpenClients ]

\* startRecording up to its await of getUserMedia.
startRecordingBegin(w) ==
    [w EXCEPT !.audioContextRef = TRUE, !.micPending = @ + 1]

\* openAIClientRef.current?.createResponse(): a request when the client is
\* connected.
createResponse(w) ==
    IF w.connected THEN [w EXCEPT !.finalized = @ + 1] ELSE w

\* stopRecording of the push-to-talk widget: it ends with createResponse().
pttStopRecording(w) ==
    createResponse([w EXCEPT !.processorRef = FALSE, !.streamRef = FALSE,
                             !.isRecording = FALSE])

\* simliClient?.ClearBuffer(); openAIClientRef.current?.cancelResponse("").
pttInterrupt(w) ==
    LET s == interruptConversation([buffer |-> w.simliBuffer,
                                    dropped |-> w.simliDropped,
                                    cancels |-> w.cancelled])
    IN  [w EXCEPT !.simliBuffer = s.buffer, !.simliDropped = s.dropped,
                  !.cancelled = s.cancels]

\* A handlePushToTalkStart that issues no cancel request.
handlePushToTalkStart_noCancel(w) ==
    IF ~w.isButtonDisabled /\ ~w.isRecording
    THEN LET v == startRecordingBegin(
                      [w EXCEPT !.isButtonDisabled = TRUE,
                                !.holdActive = TRUE, !.holds = @ + 1])
             s == simliClearBuffer([buffer |-> v.simliBuffer,
                                    dropped |-> v.simliDropped])
         IN  [v EXCEPT !.simliBuffer = s.buffer, !.simliDropped = s.dropped]
    ELSE w

handlePushToTalkStart(w) ==
    IF ~w.isButtonDisabled /\ ~w.isRecording
    THEN pttInterrupt(startRecordingBegin(
             [w EXCEPT !.isButtonDisabled = TRUE, !.holdActive = TRUE,
                       !.holds = @ + 1]))
    ELSE w

\* handlePushToTalkEnd: schedules the 500 ms timer, whatever the state.
handlePushToTalkEnd(w) ==
    [w EXCEPT !.graceTimers = @ + 1, !.holdActive = FALSE]

handleKeyDown(w) ==
    IF ~w.isSpacePressedRef /\ w.isAvatarVisible /\ ~w.isButtonDisabled
    THEN handlePushToTalkStart([w EXCEPT !.isSpacePressedRef = TRUE])
    ELSE w

handleKeyUp(w) ==
    IF w.isSpacePressedRef
    THEN handlePushToTalkEnd([w EXCEPT !.isSpacePressedRef = FALSE])
    ELSE w

\* The timer callback of handlePushToTalkEnd: stopRecording(), then
\* setIsButtonDisabled(false) unless createResponse threw.
graceTimerCallback(w, threw) ==
    LET w1 == pttStopRecording([w EXCEPT !.graceTimers = @ - 1])
    IN  IF threw THEN w1 ELSE [w1 EXCEPT !.isButtonDisabled = FALSE]

\* handleSpeechStopped of the push-to-talk widget.
pttHandleSpeechStopped(w) ==
    IF ~w.isRecording THEN createResponse(w) ELSE w

\* An initializeOpenAIClient that starts recording once connected, as the
\* continuous widget does.
pttAfterConnect_recording(w) ==
    startRecordingBegin([w EXCEPT !.isAvatarVisible = TRUE])

\* initializeOpenAIClient after connect() resolved: createResponse() for the
\* greeting, setIsAvatarVisible(true).  No startRecording().
pttAfterConnect(w) == [w EXCEPT !.isAvatarVisible = TRUE]

\* The step that takes the widget to push-to-talk state w.
PushToTalkStep(w) ==
    /\ isAvatarVisible' = w.isAvatarVisible
    /\ isRecording' = w.isRecording
    /\ streamRef' = w.streamRef
    /\ processorRef' = w.processorRef
    /\ audioContextRef' = w.audioContextRef
    /\ micPending' = w.micPending
    /\ isButtonDisabled' = w.isButtonDisabled
    /\ isSpacePressedRef' = w.isSpacePressedRef
    /\ graceTimers' = w.graceTimers
    /\ holdActive' = w.holdActive
    /\ holds' = w.holds
    /\ finalized' = w.finalized
    /\ simliBuffer' = w.simliBuffer
    /\ simliDropped' = w.simliDropped
    /\ cancelled' = w.cancelled
    /\ UNCHANGED << isLoading, error, openAIClientRef, audioChunkQueueRef,
                    isProcessingChunkRef, clients, simliState, simliListeners,
                    sent, startsPending, initPending, onStartCalls,
                    startTimeRef, usageReports, teardown, arrived, stopped >>
    /\ UNCHANGED << ledgerVars, resampleVars >>

\* connect() of client c resolves in the push-to-talk widget.
pttInitializeOpenAIClientConnected(c) ==
    /\ clients[c] = "connecting"
    /\ clients' = [clients EXCEPT ![c] = "open"]
    /\ LET w == pttAfterConnect(PushToTalk)
       IN  /\ isAvatarVisible' = w.isAvatarVisible
           /\ audioContextRef' = w.audioContextRef
           /\ micPending' = w.micPending
           /\ holds' = w.holds
           /\ finalized' = w.finalized
    /\ last' = "initializeOpenAIClientConnected"
    /\ UNCHANGED << isLoading, error, isRecording, openAIClientRef, streamRef,
                    processorRef, audioChunkQueueRef, isProcessingChunkRef,
                    simliState, simliListeners, simliBuffer, simliDropped,
                    sent, cancelled, startsPending, initPending, onStartCalls,
                    startTimeRef, usageReports, teardown, arrived, stopped,
                    isButtonDisabled, isSpacePressedRef, graceTimers,
                    holdActive >>
    /\ UNCHANGED << ledgerVars, resampleVars >>

\* onMouseDown / onTouchStart of the hold button, rendered while the avatar
\* is visible and disabled while isButtonDisabled (:759-765).
pointerDown ==
    /\ isAvatarVisible
    /\ ~isButtonDisabled
    /\ holds < MaxHolds
    /\ PushToTalkStep(handlePushToTalkStart(PushToTalk))
    /\ last' = "pointerDown"

\* onMouseUp / onTouchEnd / onMouseLeave of the hold button.  Whether a
\* disabled button still delivers them is the browser's choice; a pointer
\* that merely leaves the enabled button delivers onMouseLeave as well.
pointerRelease ==
    /\ isAvatarVisible
    /\ graceTimers + finalized < MaxFinalize
    /\ PushToTalkStep(handlePushToTalkEnd(PushToTalk))
    /\ last' = IF holdActive THEN "holdReleased" ELSE "pointerRelease"

\* keydown of Space on the window; a repeat while held is ignored.
keyDown ==
    /\ ~isSpacePressedRef
    /\ holds < MaxHolds
    /\ PushToTalkStep(handleKeyDown(PushToTalk))
    /\ last' = "keyDown"

\* keyup of Space on the window.
keyUp ==
    /\ isSpacePressedRef
    /\ graceTimers + finalized < MaxFinalize
    /\ PushToTalkStep(handleKeyUp(PushToTalk))
    /\ last' = IF holdActive THEN "holdReleased" ELSE "keyUp"

\* A timer of handlePushToTalkEnd expires.  Nothing ever cancels one.
\* createResponse() on a client that is not connected may throw.
graceTimerFired ==
    /\ graceTimers > 0
    /\ \E threw \in BOOLEAN :
          /\ threw => (openAIClientRef # 0 /\ openAIClientRef \notin OpenClients)
          /\ PushToTalkStep(graceTimerCallback(PushToTalk, threw))
    /\ last' = "graceTimerFired"

\* A connected client delivers input_audio_buffer.speech_stopped.
pttSpeechStopped ==
    /\ OpenClients # {}
    /\ graceTimers + finalized < MaxFinalize
    /\ PushToTalkStep(pttHandleSpeechStopped(PushToTalk))
    /\ last' = "speechStopped"

\* The stop button of the push-to-talk widget: handleStop, whose
\* stopRecording() ends with createResponse().  If that throws, the rest of
\* handleStop does not run.
pttStopClicked ==
    /\ isAvatarVisible
    /\ \E threw \in BOOLEAN :
          /\ threw => (openAIClientRef # 0 /\ openAIClientRef \notin OpenClients)
          /\ LET w == IF threw
                      THEN stopRecording([Widget EXCEPT !.isLoading = FALSE,
                                                        !.error = ""])
                      ELSE handleStop(Widget)
             IN  /\ isLoading' = w.isLoading
                 /\ isAvatarVisible' = w.isAvatarVisible
                 /\ error' = w.error
                 /\ isRecording' = w.isRecording
                 /\ audioContextRef' = w.audioContextRef
                 /\ streamRef' = w.streamRef
                 /\ processorRef' = w.processorRef
                 /\ clients' = w.clients
                 /\ simliState' = w.simliState
                 /\ simliBuffer' = w.simliBuffer
                 /\ startTimeRef' = w.startTimeRef
                 /\ usageReports' = usageReports
                        + Cardinality({ i \in DOMAIN w.calls :
                                          w.calls[i] = "updateDuration" })
                 /\ teardown' = w.calls
          /\ stopped' = IF threw THEN stopped ELSE TRUE
    /\ finalized' = createResponse(PushToTalk).finalized
    /\ last' = "handleStop"
    /\ UNCHANGED << simliDropped, openAIClientRef, audioChunkQueueRef,
                    isProcessingChunkRef, simliListeners, sent, cancelled,
                    startsPending, initPending, micPending, onStartCalls,
                    arrived, isButtonDisabled, isSpacePressedRef, graceTimers,
                    holdActive, holds >>
    /\ UNCHANGED << ledgerVars, resampleVars >>

\* The push-to-talk widget over MaxPttStarts start attempts.
PttNext ==
    \/ (onStartCalls < MaxPttStarts /\ handleStart)
    \/ handleStartResolved
    \/ handleStartRejected
    \/ simliConnected
    \/ initializeOpenAIClientSetup
    \/ \E c \in Clients : pttInitializeOpenAIClientConnected(c)
    \/ \E c \in Clients : initializeOpenAIClientFailed(c)
    \/ startRecordingGranted
    \/ startRecordingDenied
    \/ pttStopClicked
    \/ simliDisconnected
    \/ pointerDown
    \/ pointerRelease
    \/ keyDown
    \/ keyUp
    \/ graceTimerFired
    \/ pttSpeechStopped

PttSpec == Init /\ [][PttNext]_vars

----------------------------------------------------------------------------------------------------------------------------------------
(* The duration ledger of the page (src/app/DynamicInteractionPage.tsx),   *)
(* on a record of the clock, the start marker, the reports made and the    *)
(* limit modal.  The widget is its environment: it calls onStart from      *)
(* handleStart, while the start button is shown, and onClose from          *)
(* handleStop, while the stop button is shown.  Here isAvatarVisible       *)
(* stands for a session that is running; the page renders the widget       *)
(* only while showLimitModal is false, and the widget has no unmount       *)
(* cleanup, so a running session outlives the removal of its widget.       *)

MaxLedgerStarts == 2   \* onStart calls explored
MaxNow == 9001         \* the clock stops advancing here, in milliseconds
MaxBeacons == 1        \* beforeunload events that the page survives
\* The clock advances in steps of one and a half seconds, so that whole and
\* fractional numbers of seconds both elapse.
TickSteps == { 1500 }

Ledger ==
    [ now |-> now, startTimeRef |-> startTimeRef,
      addedSeconds |-> addedSeconds, showLimitModal |-> showLimitModal,
      reportsPending |-> reportsPending ]

\* handleStart of the page: startTimeRef.current = Date.now().
pageHandleStart(l) == [l EXCEPT !.startTimeRef = l.now]

\* A flushDuration that rounds the elapsed time to the nearest second.
flushDurationAt_rounding(l) ==
    IF l.startTimeRef = 0 THEN l
    ELSE [l EXCEPT !.addedSeconds =
                       Append(@, (l.now - l.startTimeRef + 500) \div 1000),
                   !.startTimeRef = 0,
                   !.reportsPending = @ + 1]

\* A flushDuration that leaves the start marker set.
flushDurationAt_keeping(l) ==
    IF l.startTimeRef = 0 THEN l
    ELSE [l EXCEPT !.addedSeconds =
                       Append(@, (l.now - l.startTimeRef) \div 1000),
                   !.reportsPending = @ + 1]

\* flushDuration of the page at clock l.now, up to its await: nothing
\* without a marker (null and 0 are both falsy); else Math.floor of the
\* elapsed milliseconds over 1000 is sent and the marker is cleared.
flushDurationAt(l) ==
    IF l.startTimeRef = 0 THEN l
    ELSE [l EXCEPT !.addedSeconds =
                       Append(@, (l.now - l.startTimeRef) \div 1000),
                   !.startTimeRef = 0,
                   !.reportsPending = @ + 1]

\* The outcomes of an updateDuration request: is_duration_valid 1 or 0, or
\* a rejected request.
Outcomes == { "valid", "invalid", "error" }

\* A flushDuration that treats a failed request as an exceeded quota.
flushDurationAnswered_fatal(l, outcome) ==
    LET l1 == [l EXCEPT !.reportsPending = @ - 1]
    IN  IF outcome # "valid" THEN [l1 EXCEPT !.showLimitModal = TRUE] ELSE l1

\* flushDuration after its await: is_duration_valid === 0 shows the limit
\* modal; the catch only logs.
flushDurationAnswered(l, outcome) ==
    LET l1 == [l EXCEPT !.reportsPending = @ - 1]
    IN  IF outcome = "invalid" THEN [l1 EXCEPT !.showLimitModal = TRUE] ELSE l1

\* onBeforeUnload: with a marker set, a beacon carrying the elapsed seconds
\* goes to the same endpoint; the marker stays.
onBeforeUnload(l) ==
    IF l.startTimeRef = 0 THEN l
    ELSE [l EXCEPT !.addedSeconds =
                       Append(@, (l.now - l.startTimeRef) \div 1000)]

LedgerStep(l) ==
    /\ now' = l.now
    /\ startTimeRef' = l.startTimeRef
    /\ addedSeconds' = l.addedSeconds
    /\ showLimitModal' = l.showLimitModal
    /\ reportsPending' = l.reportsPending
    /\ usageReports' = usageReports + Len(l.addedSeconds) - Len(addedSeconds)
    /\ UNCHANGED << isLoading, error, isRecording, openAIClientRef,
                    audioContextRef, streamRef, processorRef,
                    audioChunkQueueRef, isProcessingChunkRef, clients,
                    simliState, simliListeners, simliBuffer, simliDropped,
                    sent, cancelled, startsPending, initPending, micPending,
                    teardown, arrived >>
    /\ UNCHANGED << pushToTalkVars, resampleVars >>

\* Time passes.
tick(d) ==
    /\ now + d <= MaxNow
    /\ LedgerStep([Ledger EXCEPT !.now = now + d])
    /\ UNCHANGED << isAvatarVisible, onStartCalls, stopped, last >>

\* The widget's handleStart calls onStart().
ledgerStart ==
    /\ ~isAvatarVisible
    /\ ~showLimitModal
    /\ onStartCalls < MaxLedgerStarts
    /\ LedgerStep(pageHandleStart(Ledger))
    /\ onStartCalls' = onStartCalls + 1
    /\ stopped' = FALSE
    /\ last' = "handleStart"
    /\ UNCHANGED isAvatarVisible

\* A remote connect of a started widget succeeds: the session runs.
ledgerShown ==
    /\ ~isAvatarVisible
    /\ onStartCalls > 0
    /\ LedgerStep(Ledger)
    /\ isAvatarVisible' = TRUE
    /\ last' = "initializeOpenAIClientConnected"
    /\ UNCHANGED << onStartCalls, stopped >>

\* The start of the widget fails, at the renderer's start or at the remote
\* connect: the widget sets its error and calls nothing of the page.
ledgerStartFailed ==
    /\ ~isAvatarVisible
    /\ ~stopped
    /\ onStartCalls > 0
    /\ last # "handleStartRejected"
    /\ LedgerStep(Ledger)
    /\ last' = "handleStartRejected"
    /\ UNCHANGED << isAvatarVisible, onStartCalls, stopped >>

\* The widget's handleStop calls onClose().
ledgerStop ==
    /\ isAvatarVisible
    /\ ~showLimitModal
    /\ LedgerStep(flushDurationAt(Ledger))
    /\ isAvatarVisible' = FALSE
    /\ stopped' = TRUE
    /\ last' = "handleStop"
    /\ UNCHANGED onStartCalls

\* An updateDuration request is answered or fails.
ledgerAnswered(outcome) ==
    /\ reportsPending > 0
    /\ LedgerStep(flushDurationAnswered(Ledger, outcome))
    /\ last' = outcome
    /\ UNCHANGED << isAvatarVisible, onStartCalls, stopped >>

\* The window fires beforeunload.  A navigation that does not commit (a
\* download, a 204 answer, a navigation the user aborts) leaves the page
\* running; one that commits ends every behaviour of the page here.
beforeUnload ==
    /\ Len(addedSeconds) - usageReports < MaxBeacons
    /\ LET l == onBeforeUnload(Ledger)
       IN  /\ now' = l.now
           /\ startTimeRef' = l.startTimeRef
           /\ addedSeconds' = l.addedSeconds
           /\ showLimitModal' = l.showLimitModal
           /\ reportsPending' = l.reportsPending
    /\ last' = "beforeUnload"
    /\ UNCHANGED << isLoading, isAvatarVisible, error, isRecording,
                    openAIClientRef, audioContextRef, streamRef, processorRef,
                    audioChunkQueueRef, isProcessingChunkRef, clients,
                    simliState, simliListeners, simliBuffer, simliDropped,
                    sent, cancelled, startsPending, initPending, micPending,
                    onStartCalls, usageReports, teardown, arrived, stopped >>
    /\ UNCHANGED << pushToTalkVars, resampleVars >>

LedgerNext ==
    \/ \E d \in TickSteps : tick(d)
    \/ ledgerStart
    \/ ledgerShown
    \/ ledgerStartFailed
    \/ ledgerStop
    \/ \E outcome \in Outcomes : ledgerAnswered(outcome)
    \/ beforeUnload

LedgerSpec == Init /\ [][LedgerNext]_vars

----------------------------------------------------------------------------
(* The resampler (src/app/SimliOpenAI.tsx, applyLowPassFilter and          *)
(* downsampleAudio), on sequences of 16-bit samples.  An Int16Array is a   *)
(* sequence whose element k + 1 is the array's element k.  The filter's    *)
(* coefficients are Float32 numbers in the code; here they are the same    *)
(* numbers in units of 1 / CoefficientUnit, rounded to the nearest unit,   *)
(* for the two cutoffs that the rate pairs below give: a filtered sample   *)
(* here can differ from the code's by a unit or two where the rounding of  *)
(* a coefficient decides, and nothing below rests on such a value.  Rate   *)
(* pairs are kept to ratios that a double holds exactly (1.5 and 3), for   *)
(* which i * ratio and length / ratio are computed without rounding error. *)

MaxLen == 3            \* length of the enumerated inputs
SilenceLen == 4800     \* length of the long silent input
numberOfTaps == 31
CoefficientUnit == 32768

Samples == { -32768, 0, 32767 }

RatePairs ==
    { << 24000, 16000 >>, << 48000, 16000 >>, << 16000, 16000 >>,
      << 24000, 24000 >>, << 16000, 24000 >>, << 16000, 48000 >> }

Silence(n) == [ k \in 1..n |-> 0 ]

\* An input longer than the filter: a pulse at each end, silence between.
Pulses ==
    [ k \in 1..(numberOfTaps + 2) |->
        IF k = 1 THEN 32767 ELSE IF k = numberOfTaps + 2 THEN -32768 ELSE 0 ]

ShortInputs == UNION { [ 1..n -> Samples ] : n \in 0..MaxLen }

Inputs == ShortInputs \cup { Silence(SilenceLen), Pulses }

\* Int16Array element assignment: the value modulo 2^16, as a signed number.
ToInt16(n) == ((n + 32768) % 65536) - 32768

\* Math.round of num / CoefficientUnit: the nearest integer, a half going up.
MathRound(num) == (num + CoefficientUnit \div 2) \div CoefficientUnit

\* The normalised windowed-sinc coefficients for fc = 0.3.
Coefficients03 ==
    << 0, 64, -56, -86, 209, 0, -438, 377,
       514, -1127, 0, 2100, -1862, -2940, 9809, 19639,
       9809, -2940, -1862, 2100, 0, -1127, 514, 377,
       -438, 0, 209, -86, -56, 64, 0 >>

\* The normalised windowed-sinc coefficients for fc = 0.15.
Coefficients015 ==
    << 56, 39, -30, -139, -178, 0, 372, 609,
       270, -696, -1604, -1297, 978, 4755, 8340, 9814,
       8340, 4755, 978, -1297, -1604, -696, 270, 609,
       372, 0, -178, -139, -30, 39, 56 >>

\* coefficients[] of applyLowPassFilter for fc = cutoffFreq / sampleRate.
coefficients(cutoffFreq, sampleRate) ==
    CASE 10 * cutoffFreq = 3 * sampleRate -> Coefficients03
      [] 100 * cutoffFreq = 15 * sampleRate -> Coefficients015

\* The inner loop of the filter from tap j on: the taps whose index falls
\* outside the data add nothing.
RECURSIVE Convolve(_, _, _, _)
Convolve(c, data, i, j) ==
    IF j = numberOfTaps THEN 0
    ELSE LET middle == (numberOfTaps - 1) \div 2
             idx == i - j + middle
         IN  (IF idx >= 0 /\ idx < Len(data)
                 THEN c[j + 1] * data[idx + 1] ELSE 0)
             + Convolve(c, data, i, j + 1)

\* The inner loop of a filter whose indices wrap around the data.
RECURSIVE ConvolveWrapping(_, _, _, _)
ConvolveWrapping(c, data, i, j) ==
    IF j = numberOfTaps THEN 0
    ELSE LET middle == (numberOfTaps - 1) \div 2
             idx == (i - j + middle) % Len(data)
         IN  c[j + 1] * data[idx + 1]
             + ConvolveWrapping(c, data, i, j + 1)

\* A filter whose taps outside the data read the data's other end.
applyLowPassFilter_wrapping(data, cutoffFreq, sampleRate) ==
    LET c == coefficients(cutoffFreq, sampleRate)
    IN  [ k \in 1..Len(data) |->
            ToInt16(MathRound(ConvolveWrapping(c, data, k - 1, 0))) ]

\* A filter that adds one to every sum.
applyLowPassFilter_biased(data, cutoffFreq, sampleRate) ==
    LET c == coefficients(cutoffFreq, sampleRate)
    IN  [ k \in 1..Len(data) |->
            ToInt16(MathRound(Convolve(c, data, k - 1, 0)) + 1) ]

applyLowPassFilter(data, cutoffFreq, sampleRate) ==
    LET c == coefficients(cutoffFreq, sampleRate)
    IN  [ k \in 1..Len(data) |->
            ToInt16(MathRound(Convolve(c, data, k - 1, 0))) ]

\* The interpolation loop of downsampleAudio: position i * ratio has the
\* index floor(i * rateIn / rateOut) and the fraction
\* (i * rateIn mod rateOut) / rateOut.
interpolate(filteredData, newLength, rateIn, rateOut) ==
    [ k \in 1..newLength |->
        LET i == k - 1
            index == (i * rateIn) \div rateOut
            fraction == (i * rateIn) % rateOut
        IN  IF index + 1 < Len(filteredData)
            THEN LET a == filteredData[index + 1]
                     b == filteredData[index + 2]
                 IN  ToInt16(a + (fraction * (b - a) + rateOut \div 2)
                                     \div rateOut)
            ELSE IF index < Len(filteredData)
                 THEN filteredData[index + 1] ELSE 0 ]

Returned(value) == [ status |-> "returned", value |-> value ]
Threw == [ status |-> "threw", value |-> <<>> ]

\* A resampler that carries the last sample of the previous call's output
\* over into the first sample of this one.
downsampleAudio_continuing(data, rateIn, rateOut) ==
    IF rateIn = rateOut THEN Returned(data)
    ELSE IF rateIn < rateOut THEN Threw
    ELSE LET result == interpolate(
                 applyLowPassFilter(data, (45 * rateOut) \div 100, rateIn),
                 (Len(data) * rateOut) \div rateIn, rateIn, rateOut)
             memory == resampled.value
         IN  Returned([ k \in 1..Len(result) |->
                          IF k = 1 /\ Len(memory) > 0
                          THEN memory[Len(memory)] ELSE result[k] ])

\* A resampler that rejects equal rates as well.
downsampleAudio_strict(data, rateIn, rateOut) ==
    IF rateIn <= rateOut THEN Threw
    ELSE Returned(interpolate(
             applyLowPassFilter(data, (45 * rateOut) \div 100, rateIn),
             (Len(data) * rateOut) \div rateIn, rateIn, rateOut))

\* A resampler that returns its input whenever it has nothing to remove.
downsampleAudio_lenient(data, rateIn, rateOut) ==
    IF rateIn <= rateOut THEN Returned(data)
    ELSE Returned(interpolate(
             applyLowPassFilter(data, (45 * rateOut) \div 100, rateIn),
             (Len(data) * rateOut) \div rateIn, rateIn, rateOut))

\* A resampler whose output length is rounded up.
downsampleAudio_ceiling(data, rateIn, rateOut) ==
    IF rateIn = rateOut THEN Returned(data)
    ELSE IF rateIn < rateOut THEN Threw
    ELSE Returned(interpolate(
             applyLowPassFilter(data, (45 * rateOut) \div 100, rateIn),
             (Len(data) * rateOut + rateIn - 1) \div rateIn,
             rateIn, rateOut))

\* downsampleAudio: the input itself at equal rates, an Error when the
\* output rate is the higher one, else the filtered data interpolated to
\* Math.floor(length / ratio) samples.
downsampleAudio(data, rateIn, rateOut) ==
    IF rateIn = rateOut THEN Returned(data)
    ELSE IF rateIn < rateOut THEN Threw
    ELSE Returned(interpolate(
             applyLowPassFilter(data, (45 * rateOut) \div 100, rateIn),
             (Len(data) * rateOut) \div rateIn, rateIn, rateOut))

\* A call as the history keeps it: its arguments and what it did.
ResampleCall(data, rateIn, rateOut, result) ==
    [ audioData |-> data, inputSampleRate |-> rateIn,
      outputSampleRate |-> rateOut, resampled |-> result ]

ResampleInit ==
    /\ Constructed
    /\ audioData \in Inputs
    /\ \E pair \in RatePairs :
           inputSampleRate = pair[1] /\ outputSampleRate = pair[2]
    /\ resampled = NotResampled
    /\ calls = {}

\* The state of the widget, which the resampler never touches.
widgetFrame ==
    << isLoading, isAvatarVisible, error, isRecording, openAIClientRef,
       audioContextRef, streamRef, processorRef, audioChunkQueueRef,
       isProcessingChunkRef, clients, simliState, simliListeners,
       simliBuffer, simliDropped, sent, cancelled, startsPending,
       initPending, micPending, onStartCalls, startTimeRef, usageReports,
       teardown, arrived, stopped >>

\* One call downsampleAudio(audioData, inputSampleRate, outputSampleRate).
resample ==
    /\ resampled.status = "none"
    /\ resampled' = downsampleAudio(audioData, inputSampleRate,
                                    outputSampleRate)
    /\ calls' = calls \cup { ResampleCall(audioData, inputSampleRate,
                                   outputSampleRate, resampled') }
    /\ last' = "downsampleAudio"
    /\ UNCHANGED << audioData, inputSampleRate, outputSampleRate >>
    /\ UNCHANGED widgetFrame
    /\ UNCHANGED << pushToTalkVars, ledgerVars >>

ResampleNext == resample

ResampleSpec == ResampleInit /\ [][ResampleNext]_vars

\* Several calls in a row, as handleConversationUpdate makes one for each
\* audio delta.
MaxCalls == 3          \* distinct calls explored

\* An input for a call made between two others.
Interleaved == { << 32767, -32768 >> }

PurityInit ==
    /\ Constructed
    /\ audioData \in ShortInputs \cup { Pulses }
    /\ \E pair \in RatePairs :
           inputSampleRate = pair[1] /\ outputSampleRate = pair[2]
    /\ resampled = NotResampled
    /\ calls = {}

\* A further call: of an input and at rates used before, or of another
\* input, or at the rates of the widget.
resampleAgain ==
    /\ resampled.status # "none"
    /\ Cardinality(calls) < MaxCalls
    /\ \E data \in { c.audioData : c \in calls } \cup Interleaved,
          pair \in { << c.inputSampleRate, c.outputSampleRate >> : c \in calls }
                      \cup { << 24000, 16000 >> } :
           /\ audioData' = data
           /\ inputSampleRate' = pair[1]
           /\ outputSampleRate' = pair[2]
           /\ resampled' = downsampleAudio(data, pair[1], pair[2])
           /\ calls' = calls \cup { ResampleCall(data, pair[1], pair[2], resampled') }
    /\ last' = "downsampleAudioAgain"
    /\ UNCHANGED widgetFrame
    /\ UNCHANGED << pushToTalkVars, ledgerVars >>

PurityNext == resample \/ resampleAgain

PuritySpec == PurityInit /\ [][PurityNext]_vars

----------------------------------------------------------------------------
(* The session states of the design, read off the widget's state.          *)

Active == isAvatarVisible
ActiveSpeaking == Active /\ simliBuffer > 0
ActiveListening == Active /\ simliBuffer = 0
Connecting ==
    /\ ~Active
    /\ \/ startsPending > 0
       \/ simliState = "started"
       \/ initPending > 0
       \/ ConnectingClients # {}
Idle == ~Active /\ ~Connecting

\* No asynchronous step of the widget is outstanding.
Quiescent ==
    /\ startsPending = 0
    /\ simliState # "started"
    /\ initPending = 0
    /\ ConnectingClients = {}
    /\ micPending = 0

Occurrences(seq, x) == Cardinality({ i \in DOMAIN seq : seq[i] = x })

\* seq lists its ranked entries in nondecreasing rank; rank 0 is unranked.
Ordered(seq, rank(_)) ==
    \A i, j \in DOMAIN seq :
        (i < j /\ rank(seq[i]) # 0 /\ rank(seq[j]) # 0)
            => rank(seq[i]) <= rank(seq[j])

----------------------------------------------------------------------------
\* C1: the chunks handed to the renderer sink, followed by those still
\* queued, are exactly the audio deltas received, in arrival order.
C1_DeliveryOrder == sent \o audioChunkQueueRef = arrived

C1_Witness == last = "assistantAudio" /\ sent = << 1, 2 >>

\* C2: every chunk pushed has been handed to the sink exactly once and none
\* is left in the queue, in every state, torn down or not.
C2_ExactlyOnce ==
    /\ audioChunkQueueRef = <<>>
    /\ \A i \in DOMAIN arrived : Occurrences(sent, arrived[i]) = 1

C2_Witness == stopped /\ last = "handleStop" /\ Len(arrived) >= 1

\* C3: no drain is in progress when a handler starts or ends, so a push never
\* runs beside another drain; and a push made with the guard set would only
\* enqueue: nothing sent, guard untouched.
C3_SingleDrain ==
    /\ ~isProcessingChunkRef
    /\ \A d \in 1..MaxChunks :
          handleConversationUpdate(
              [queue |-> audioChunkQueueRef, flag |-> TRUE, out |-> <<>>],
              "assistantAudio", d)
          = [queue |-> Append(audioChunkQueueRef, d), flag |-> TRUE, out |-> <<>>]

C3_Witness == last = "assistantAudio" /\ Len(sent) >= 1 /\ ~isProcessingChunkRef

\* C4: handleStart takes effect only when the session is Idle.
C4_StartOnlyFromIdle == [][onStartCalls' # onStartCalls => Idle]_vars

\* C5: at most one remote-engine connection is open at any time.
C5_OneConnection == Cardinality(OpenClients) <= 1

\* C6: an interrupted event handled while ActiveSpeaking leaves the chunk
\* queue empty, issues exactly one cancel request, hands no chunk to the
\* sink, and leaves the session ActiveListening.
C6_BargeIn ==
    [][(last' = "interrupted" /\ ActiveSpeaking)
          => /\ audioChunkQueueRef' = <<>>
             /\ cancelled' = cancelled + 1
             /\ sent' = sent
             /\ ActiveListening']_vars

C6_Witness ==
    last = "interrupted" /\ simliDropped > 0 /\ cancelled = 1 /\ ActiveListening

\* C7: an interrupted event that directly follows another, with nothing
\* queued, issues no further cancel request.
C7_DuplicateIsNoOp ==
    [][(last = "interrupted" /\ last' = "interrupted"
        /\ audioChunkQueueRef = <<>> /\ simliBuffer = 0)
          => cancelled' = cancelled]_vars

\* The claimed teardown order: capture, audio context, remote connection.
ClaimedRank(call) ==
    CASE call \in { "processor.disconnect", "track.stop" } -> 1
      [] call = "audioContext.close" -> 2
      [] call = "openai.disconnect" -> 3
      [] OTHER -> 0

\* C8 (as claimed): handleStop releases the capture device, then closes the
\* audio context, then closes the remote-engine connection.
C8_ClaimedOrder == Ordered(teardown, ClaimedRank)

\* The order of handleStop: capture, renderer, remote connection, audio context.
CodeRank(call) ==
    CASE call \in { "processor.disconnect", "track.stop" } -> 1
      [] call = "simli.close" -> 2
      [] call = "openai.disconnect" -> 3
      [] call = "audioContext.close" -> 4
      [] OTHER -> 0

\* C8 (amended): handleStop releases the capture device, closes the renderer,
\* closes the current remote-engine connection and then closes the audio
\* context, in that order; when it returns all of these are released and the
\* chunk queue is empty.
C8_TeardownOrder ==
    /\ Ordered(teardown, CodeRank)
    /\ last = "handleStop" =>
          /\ ~streamRef /\ ~processorRef /\ ~isRecording
          /\ simliState = "closed"
          /\ openAIClientRef \notin OpenClients
          /\ ~audioContextRef
          /\ audioChunkQueueRef = <<>>

C8_Witness ==
    /\ last = "handleStop"
    /\ \A call \in { "processor.disconnect", "track.stop", "simli.close",
                     "openai.disconnect", "audioContext.close" } :
          Occurrences(teardown, call) = 1

C10_ReleasedAfterStop ==
    (stopped /\ Quiescent)
        => /\ ~streamRef /\ ~processorRef /\ ~audioContextRef
           /\ OpenClients = {}

----------------------------------------------------------------------------
(* Failure paths and the session state graph.                              *)

\* C11: a "disconnected" report handled while the session is Active has the
\* effects of handleStop: capture released, audio context closed, connection
\* closed, session no longer Active, start marker flushed in one report.
C11_DisconnectIsStop ==
    [][(Active /\ last' = "simliDisconnected")
          => LET w == handleStop(Widget)
             IN  /\ isAvatarVisible' = w.isAvatarVisible
                 /\ isRecording' = w.isRecording
                 /\ streamRef' = w.streamRef
                 /\ processorRef' = w.processorRef
                 /\ audioContextRef' = w.audioContextRef
                 /\ clients' = w.clients
                 /\ startTimeRef' = w.startTimeRef
                 /\ usageReports' = usageReports
                        + Occurrences(w.calls, "updateDuration")]_vars

\* C12: when getUserMedia is refused, an error is shown, the session is Idle
\* with no connection open, and no further acquisition is outstanding or
\* started by the refusal.
C12_DenialLeavesIdle ==
    [][last' = "startRecordingDenied"
          => /\ error' # ""
             /\ Idle'
             /\ OpenClients' = {}
             /\ micPending' < micPending]_vars

\* C13: when connect() rejects, an error is shown, the session is Idle, no
\* capture is running and the start button accepts a click.
C13_ConnectFailureToIdle ==
    [][last' = "initializeOpenAIClientFailed"
          => /\ error' # ""
             /\ Idle'
             /\ ~isRecording' /\ ~processorRef' /\ ~streamRef'
             /\ StartButtonEnabled']_vars

C13_Witness ==
    /\ last = "handleStart"
    /\ onStartCalls = 2
    /\ \E c \in Clients : clients[c] = "closed"
    /\ OpenClients = {}
    /\ ~stopped

\* The session state of the design that a widget state stands for.
SessionState ==
    IF ActiveSpeaking THEN "ActiveSpeaking"
    ELSE IF ActiveListening THEN "ActiveListening"
    ELSE IF Connecting THEN "Connecting"
    ELSE IF stopped THEN "Stopped"
    ELSE "Idle"

\* The edges of the state graph as claimed.
ClaimedEdges ==
    { << "Idle", "Connecting" >>,
      << "Connecting", "ActiveListening" >>,
      << "ActiveListening", "ActiveSpeaking" >>,
      << "ActiveSpeaking", "ActiveListening" >>,
      << "ActiveSpeaking", "Stopped" >>,
      << "ActiveListening", "Stopped" >> }

\* C14: the session state changes only along the claimed edges.
C14_StateGraph ==
    [][SessionState' # SessionState
          => << SessionState, SessionState' >> \in ClaimedEdges]_vars

----------------------------------------------------------------------------
(* Push-to-talk.                                                           *)

\* No hold is in progress and no release timer is outstanding.
HoldsSettled == ~holdActive /\ ~isSpacePressedRef /\ graceTimers = 0

\* C15: the finalize requests never outnumber the holds accepted, and
\* once every hold is released and every timer has run there is exactly one
\* per hold.
C15_OneFinalizePerHold ==
    /\ finalized <= holds
    /\ (isAvatarVisible /\ HoldsSettled) => finalized = holds

\* C16: a hold is never accepted by the step right after the release of the
\* previous hold, whose timer is then still outstanding.
C16_NoHoldWhileFinalizing ==
    [][holds' > holds => last # "holdReleased"]_vars

\* C17: the capture processor is connected only while a hold is active or a
\* release timer is outstanding.
C17_CaptureOnlyWhileHeld ==
    (processorRef /\ isRecording)
        => (holdActive \/ isSpacePressedRef \/ graceTimers > 0)

\* C18: after handleStop has run no release timer is outstanding.
C18_TimerCancelledByStop == stopped => graceTimers = 0

----------------------------------------------------------------------------
(* Duration ledger.                                                        *)

\* C20: a stop made while the start marker is set emits one report whose
\* value e is the floor of the elapsed time in seconds, that is
\* 1000 e <= now - startInstant < 1000 (e + 1), 7 for 7500 ms; and the start
\* instant is the clock reading of the latest start.
C20_ElapsedSeconds ==
    [][/\ (last' = "handleStop" /\ startTimeRef # 0) =>
            /\ Len(addedSeconds') = Len(addedSeconds) + 1
            /\ LET e == addedSeconds'[Len(addedSeconds')]
                   elapsed == now - startTimeRef
               IN  /\ 1000 * e <= elapsed
                   /\ elapsed < 1000 * (e + 1)
                   /\ elapsed = 7500 => e = 7
       /\ (onStartCalls' > onStartCalls) => startTimeRef' = now]_vars

C20_Witness ==
    /\ last = "handleStop"
    /\ addedSeconds = << 7 >>
    /\ now = 7501

\* C21: every stop of a started session, by the stop control or by a
\* disconnect of the renderer, emits exactly one usage report.
C21_OneReportPerStop ==
    [][(Active /\ last' \in { "handleStop", "simliDisconnected" })
          => usageReports' = usageReports + 1]_vars

RECURSIVE SumSeq(_)
SumSeq(q) == IF q = <<>> THEN 0 ELSE Head(q) + SumSeq(Tail(q))

\* C23: the reported seconds cover the engaged time exactly once: no time is
\* reported twice, so the sum of the reports never exceeds the time that
\* has passed, and none is left unreported, so a running session always
\* has its start marker set.
C23_CoveredExactlyOnce ==
    /\ 1000 * SumSeq(addedSeconds) <= now - 1
    /\ isAvatarVisible => startTimeRef # 0

\* C24: once a report has been answered with the quota flag 0, no session
\* is running, every later start is rejected, and the block is never
\* lifted.
C24_QuotaStops ==
    /\ [](showLimitModal => ~isAvatarVisible)
    /\ [][showLimitModal
             => showLimitModal' /\ onStartCalls' = onStartCalls]_vars

\* The page accepts a start: the widget is rendered and shows its start
\* control.
StartAccepted == ~showLimitModal /\ ~isAvatarVisible

\* C25: a usage report whose request fails changes nothing but the number
\* of requests in flight: the marker is not restored, the seconds are not
\* sent again, the limit modal is not shown and a start is accepted as it
\* was before; only an answer carrying the quota flag 0 shows the modal.
C25_FailureNonFatal ==
    [][/\ (last' = "error" /\ reportsPending' # reportsPending)
            => /\ reportsPending' = reportsPending - 1
               /\ startTimeRef' = startTimeRef
               /\ addedSeconds' = addedSeconds
               /\ usageReports' = usageReports
               /\ showLimitModal' = showLimitModal
               /\ StartAccepted' = StartAccepted
       /\ (showLimitModal' # showLimitModal) => last' = "invalid"]_vars

\* The report of a stopped session has failed: the marker is still cleared,
\* the report is not pending again and a start is accepted.
C25_Witness ==
    /\ last = "error"
    /\ addedSeconds = << 1 >>
    /\ reportsPending = 0
    /\ startTimeRef = 0
    /\ StartAccepted

----------------------------------------------------------------------------
(* Resampler.                                                              *)

\* C26: called with equal rates, the resampler returns its input unchanged.
C26_EqualRatesIdentity ==
    (resampled.status # "none" /\ inputSampleRate = outputSampleRate)
        => resampled = Returned(audioData)

C26_Witness ==
    /\ inputSampleRate = outputSampleRate
    /\ resampled.status = "returned"
    /\ resampled.value = << 32767, -32768, 0 >>

\* C27: called with an input rate below the output rate, the resampler
\* fails with its error and produces no output.
C27_UpsamplingRejected ==
    (resampled.status # "none" /\ inputSampleRate < outputSampleRate)
        => resampled = Threw

C27_Witness ==
    /\ inputSampleRate = 16000 /\ outputSampleRate = 24000
    /\ audioData = << 32767, -32768, 0 >>
    /\ resampled.status = "threw"
    /\ resampled.value = <<>>

\* C28: called with an input rate above the output rate, the resampler
\* returns floor(len / (rateIn / rateOut)) samples, the greatest n with
\* n * rateIn <= len * rateOut; from 24000 to 16000 that is
\* floor(2 len / 3).
C28_OutputLength ==
    (resampled.status # "none" /\ inputSampleRate > outputSampleRate)
        => /\ resampled.status = "returned"
           /\ LET n == Len(resampled.value)
                  len == Len(audioData)
              IN  /\ n * inputSampleRate <= len * outputSampleRate
                  /\ len * outputSampleRate < (n + 1) * inputSampleRate
                  /\ (inputSampleRate = 24000 /\ outputSampleRate = 16000)
                        => n = (2 * len) \div 3

C28_Witness ==
    /\ inputSampleRate = 24000 /\ outputSampleRate = 16000
    /\ audioData = << 32767, -32768 >>
    /\ resampled.status = "returned"
    /\ Len(resampled.value) = 1

IsSilence(q) == \A k \in DOMAIN q : q[k] = 0

\* C29: a silent input resampled to a lower rate gives a silent output;
\* 4800 zero samples at 24000 give 3200 zero samples at 16000.
C29_SilencePreserved ==
    (resampled.status # "none" /\ inputSampleRate > outputSampleRate
        /\ IsSilence(audioData))
        => /\ resampled.status = "returned"
           /\ IsSilence(resampled.value)
           /\ (Len(audioData) = 4800 /\ inputSampleRate = 24000
                   /\ outputSampleRate = 16000)
                 => resampled.value = Silence(3200)

C29_Witness ==
    /\ inputSampleRate = 24000 /\ outputSampleRate = 16000
    /\ audioData = Silence(4800)
    /\ resampled = Returned(Silence(3200))

----------------------------------------------------------------------------
(* The chunk queue at rest.                                                *)

\* The queues of at most MaxChunks chunks.
ChunkQueues == UNION { [ 1..n -> 1..MaxChunks ] : n \in 0..MaxChunks }

\* C30: between two events the chunk queue is empty and the drain guard is
\* released; and a drain begun on any queue with the guard released returns
\* with every chunk handed over in order, the queue empty and the guard
\* released.
C30_QueueAtRest ==
    /\ Relay = [queue |-> <<>>, flag |-> FALSE, out |-> <<>>]
    /\ \A q \in ChunkQueues :
          processNextAudioChunk([queue |-> q, flag |-> FALSE, out |-> <<>>])
          = [queue |-> <<>>, flag |-> FALSE, out |-> q]

\* Two audio deltas have been pushed and drained.
C30_Witness ==
    /\ last = "assistantAudio"
    /\ Len(arrived) = 2 /\ sent = arrived
    /\ audioChunkQueueRef = <<>> /\ ~isProcessingChunkRef

----------------------------------------------------------------------------
(* Usage and unload.                                                       *)

\* C31: after a start that failed, and until a session is started again, a
\* page unload sends no beacon and a stop sends no report.
C31_NothingAfterFailedStart ==
    [][(last = "handleStartRejected"
        /\ last' \in { "beforeUnload", "handleStop" })
          => addedSeconds' = addedSeconds]_vars

\* C32: a page unload leaves the start marker as it is; it sends no beacon
\* without a marker, and none after a stop with no start since; while a
\* session is running it sends one beacon carrying the floor of the elapsed
\* seconds.
C32_BeaconOnlyWhileMarked ==
    [][(last' = "beforeUnload" /\ now' = now)
          => /\ startTimeRef' = startTimeRef
             /\ (startTimeRef = 0 \/ stopped)
                   => addedSeconds' = addedSeconds
             /\ isAvatarVisible
                   => addedSeconds' =
                          Append(addedSeconds,
                                 (now - startTimeRef) \div 1000)]_vars

----------------------------------------------------------------------------
(* Interruption and end of speech.                                         *)

\* What the two handlers can touch: the chunk queue, the renderer's buffer
\* and the cancel requests made.
Interruptible ==
    [ queue |-> audioChunkQueueRef, buffer |-> simliBuffer,
      dropped |-> simliDropped, cancels |-> cancelled ]

\* C33: handling speechStopped alone issues no cancel request and leaves
\* the chunk queue as handling interrupted once leaves it; handling both
\* events, in either order, gives the state that handling interrupted once
\* gives, with exactly one cancel request; and a speechStopped step of the
\* widget is that handler.
C33_EitherOrder ==
    /\ [](LET s == Interruptible
              once == interruptConversation(s)
          IN  /\ handleSpeechStopped(s).cancels <= s.cancels + 1
              /\ handleSpeechStopped(s).queue = once.queue
              /\ interruptConversation(handleSpeechStopped(s)) = once
              /\ handleSpeechStopped(interruptConversation(s)) = once
              /\ once.cancels = s.cancels + 1)
    /\ [][(last' = "speechStopped")
             => /\ cancelled' = cancelled
                /\ audioChunkQueueRef' = audioChunkQueueRef
                /\ sent' = sent]_vars

\* An interrupted event that discarded renderer audio, then speechStopped:
\* one cancel request in all.
C33_Witness ==
    /\ last = "speechStopped"
    /\ cancelled = 1 /\ simliDropped > 0
    /\ audioChunkQueueRef = <<>>

----------------------------------------------------------------------------
(* The start sequence of the continuous widget.                            *)

\* The connect of some client has just succeeded.
ConnectSucceeded ==
    \E c \in Clients : clients[c] = "connecting" /\ clients'[c] = "open"

\* C34: a remote connection is opened only for a start whose renderer has
\* reported connected; capture is acquired, and the session becomes
\* visible, only in the step where a remote connect succeeds; a start that
\* the renderer rejects registers and opens nothing, and a connection that
\* failed never opens.
C34_StartOrder ==
    [][/\ (initPending' > initPending)
            => simliState = "started" /\ simliState' = "connected"
       /\ (\E c \in Clients :
               clients[c] # "connecting" /\ clients'[c] = "connecting")
            => initPending > 0
       /\ (micPending' > micPending) => ConnectSucceeded
       /\ (~isAvatarVisible /\ isAvatarVisible') => ConnectSucceeded
       /\ (last' = "handleStartRejected")
            => /\ simliListeners' = simliListeners
               /\ simliState' = simliState
               /\ clients' = clients
               /\ initPending' = initPending
       /\ \A c \in Clients :
              clients[c] = "closed" => clients'[c] = "closed"]_vars

\* A whole start: renderer connected, one connection open, capture running.
C34_Witness ==
    /\ last = "startRecordingGranted"
    /\ onStartCalls = 1
    /\ simliState = "connected"
    /\ Cardinality(OpenClients) = 1
    /\ isAvatarVisible /\ isRecording

----------------------------------------------------------------------------
(* The start of a hold.                                                    *)

\* What a hold start can touch.
HoldState ==
    << isButtonDisabled, isRecording, audioContextRef, streamRef,
       processorRef, micPending, graceTimers, holdActive, finalized,
       simliBuffer, simliDropped, cancelled >>

----------------------------------------------------------------------------
(* What reaches the renderer.                                              *)

\* C36: an event of a user item, or of an assistant item without an audio
\* delta, pushes nothing and hands nothing to the sink, whether or not a
\* drain is marked in progress; an assistant audio delta adds exactly one
\* chunk, which is that delta, behind what was queued.
C36_OnlyAssistantAudio ==
    /\ [](\A kind \in EventKinds, flag \in BOOLEAN, d \in 1..MaxChunks :
             LET r == [Relay EXCEPT !.flag = flag]
                 v == handleConversationUpdate(r, kind, d)
             IN  IF kind = "assistantAudio"
                 THEN v.out \o v.queue = Append(r.queue, d)
                 ELSE v = r)
    /\ [][/\ (last' \in { "user", "assistantText" })
                => /\ audioChunkQueueRef' = audioChunkQueueRef
                   /\ sent' = sent
                   /\ arrived' = arrived
                   /\ simliBuffer' = simliBuffer
          /\ (last' = "assistantAudio")
                => Len(sent') + Len(audioChunkQueueRef')
                       = Len(sent) + Len(audioChunkQueueRef) + 1]_vars

\* A user event handled after one assistant audio delta was delivered.
C36_Witness ==
    /\ last = "user"
    /\ Len(arrived) = 1 /\ sent = arrived
    /\ simliBuffer = 1

----------------------------------------------------------------------------
(* The edges of the filter.                                                *)

\* The data extended by zeros on both sides.
ZeroPadded(data, idx) ==
    IF idx >= 0 /\ idx < Len(data) THEN data[idx + 1] ELSE 0

\* The sum of all the taps over the zero-padded data.
RECURSIVE PaddedSum(_, _, _, _)
PaddedSum(c, data, i, j) ==
    IF j = numberOfTaps THEN 0
    ELSE c[j + 1] * ZeroPadded(data, i - j + (numberOfTaps - 1) \div 2)
         + PaddedSum(c, data, i, j + 1)

\* C37: for an input of any length, the empty one and those shorter than
\* the filter included, the filter returns as many samples as it was given,
\* each the rounded sum of the taps over the data extended by zeros: a tap
\* outside the data adds nothing and nothing wraps; the interpolation reads
\* inside the filtered data only; and the call returns without an error.
C37_ZeroPadding ==
    (resampled.status # "none" /\ inputSampleRate > outputSampleRate)
        => LET cutoffFreq == (45 * outputSampleRate) \div 100
               c == coefficients(cutoffFreq, inputSampleRate)
               filteredData ==
                   applyLowPassFilter(audioData, cutoffFreq, inputSampleRate)
           IN  /\ DOMAIN filteredData = 1..Len(audioData)
               /\ \A k \in 1..Len(audioData) :
                      filteredData[k] =
                          ToInt16(MathRound(PaddedSum(c, audioData, k - 1, 0)))
               /\ resampled.status = "returned"
               /\ \A k \in 1..Len(resampled.value) :
                      ((k - 1) * inputSampleRate) \div outputSampleRate
                          < Len(audioData)

\* Three samples, fewer than the taps, filtered over zeros and resampled.
C37_Witness ==
    /\ inputSampleRate = 24000 /\ outputSampleRate = 16000
    /\ audioData = << 32767, -32768, 0 >>
    /\ resampled = Returned(<< 9829, -11289 >>)

----------------------------------------------------------------------------
(* Purity of the resampler.                                                *)

====
